---- MODULE Spec2Model ----
(***************************************************************************)
(* Model of the SEPIA diagnostics consumers (src/sepia/SepiaPlot.py) and   *)
(* of the design construction of src/test/test_KronSetupLogLik.py.         *)
(*                                                                         *)
(* Every public function is one action.  An action draws the arguments of  *)
(* one call from bounded sets, runs the function as the source runs it and *)
(* records the call (fn, args) and what it did (out): the exception it     *)
(* raised or the value it returned, and every side effect in the order the *)
(* source performs it (traces drawn, labels set, statistics computed,      *)
(* chain reads, calls of model.acf).  An effect that the source performs   *)
(* after the point where it raises is not recorded.  The functions keep no *)
(* state between calls, so a behaviour is one call from the initial state. *)
(*                                                                         *)
(* Conventions:                                                            *)
(*   - a Python optional scalar is <<>> (None) or <<v>>;                   *)
(*   - a label argument (design_names / theta_names) is a record           *)
(*     [none, list, len]: None, or a list (list = TRUE) or another         *)
(*     sequence such as a tuple (list = FALSE) of len labels; its j-th     *)
(*     label (0-based) is <<"names", j>>;                                  *)
(*   - a label made from a block name k is <<k, 0>> ("k"),                 *)
(*     <<k, j>> ("k_j" / "kj", j >= 1);                                    *)
(*   - samples_dict is the sequence of its items in dict order, each       *)
(*     [k |-> name, width |-> shape[1]]; all blocks share shape[0],        *)
(*     passed as n_samples;                                                *)
(*   - alpha is the rational a / AlphaDenom, passed as its numerator a.    *)
(***************************************************************************)
EXTENDS Integers, Sequences, FiniteSets, TLC

VARIABLES fn, args, out

vars == <<fn, args, out>>

(* ------------------------------ bounds -------------------------------- *)
MaxWidth == 2
MaxNames == 3
MaxPrint == 2
MaxSamples == 4
MaxLags == 3
MaxFactorRows == 4
AlphaDenom == 4

(* program constants *)
ThinMax == 1000
DefaultNToPlot == 500
TestN1 == 3
TestN2 == 4

(* ------------------------------ helpers ------------------------------- *)
None == <<>>
Some(v) == <<v>>
IsNone(o) == o = <<>>
Val(o) == o[1]

Min(a, b) == IF a <= b THEN a ELSE b

Range(s) == {s[i] : i \in 1..Len(s)}

RECURSIVE SortedSeq(_)
SortedSeq(S) ==
    IF S = {} THEN <<>>
    ELSE LET m == CHOOSE x \in S : \A y \in S : x <= y
         IN  <<m>> \o SortedSeq(S \ {m})

(* np.linspace(start, stop, num, dtype=int) for 0 <= start <= stop and     *)
(* num >= 0: num evenly spaced values, truncated to integers.  The values  *)
(* are computed exactly; numpy's floating-point step can truncate an       *)
(* interior value to the integer below, never outside [start, stop].       *)
linspace(start, stop, num) ==
    IF num = 0 THEN <<>>
    ELSE IF num = 1 THEN <<start>>
    ELSE [i \in 1..num |-> start + ((i - 1) * (stop - start)) \div (num - 1)]

(* np.unique: the sorted distinct values *)
unique(s) == SortedSeq(Range(s))

(* np.arange(start, stop, 1) *)
arange(start, stop) ==
    IF stop <= start THEN <<>> ELSE [i \in 1..(stop - start) |-> start + i - 1]

(* dict access *)
Keys(d) == {d[i].k : i \in 1..Len(d)}
Has(d, key) == key \in Keys(d)
Get(d, key) == d[CHOOSE i \in 1..Len(d) : d[i].k = key]

(* labels *)
NameLabel(j) == <<"names", j>>
KeyLabel(k, j) == <<k, j>>

(* the record of what a call did; every function starts from Nothing *)
Nothing ==
    [raised |-> "", returned |-> "", printed |-> FALSE,
     thin_idx |-> <<>>, thinned |-> FALSE, plotted |-> "", saved |-> FALSE,
     lims_set |-> FALSE, ref_drawn |-> FALSE,
     plot_idx |-> <<>>, n_axes |-> -1, traces |-> <<>>, ylabels |-> <<>>,
     computed |-> <<>>, keys |-> <<>>,
     chain_read |-> FALSE, acf_called |-> FALSE,
     x_sim |-> <<>>, x_sim_kron |-> <<>>]

Raise(o, exc) == [o EXCEPT !.raised = exc]
Return(o, v) == [o EXCEPT !.returned = v]

NoArgs ==
    [samples_dict |-> <<>>, n_samples |-> 0, names |-> [none |-> TRUE, list |-> FALSE, len |-> 0],
     native |-> FALSE, lims |-> FALSE, theta_ref |-> FALSE, save |-> FALSE,
     start |-> 0, start_int |-> TRUE, end |-> None, end_int |-> TRUE,
     n_to_plot |-> 0, by_group |-> TRUE, max_print |-> 0,
     num_samples |-> 0, sim_only |-> FALSE, mcmcList |-> <<>>, nlags |-> 0, alpha |-> 0,
     n1 |-> 0, n2 |-> 0]

(* ------------------------------ plot_acf ------------------------------ *)
(* model is [num_samples, sim_only, mcmcList]; mcmcList is the sequence of *)
(* parameter names.  The chain is bound only if a parameter is named theta.*)
(* nburn is not read by the function.                                      *)

(* variant: the sim_only test moved before the argument checks *)
plot_acf_unchecked(model, nlags, alpha, save) ==
    IF model.sim_only
    THEN Return([Nothing EXCEPT !.printed = TRUE], "None")
    ELSE IF nlags > model.num_samples THEN Raise(Nothing, "ValueError")
    ELSE IF alpha <= 0 \/ alpha >= AlphaDenom THEN Raise(Nothing, "ValueError")
    ELSE LET read == "theta" \in Range(model.mcmcList)
             o1 == [Nothing EXCEPT !.chain_read = read]
         IN  IF ~read THEN Raise(o1, "UnboundLocalError")
             ELSE Return([o1 EXCEPT !.acf_called = TRUE, !.plotted = "acf", !.saved = save], "acf")

(* variant: the sim_only test left out *)
plot_acf_no_sim_check(model, nlags, alpha, save) ==
    IF nlags > model.num_samples THEN Raise(Nothing, "ValueError")
    ELSE IF alpha <= 0 \/ alpha >= AlphaDenom THEN Raise(Nothing, "ValueError")
    ELSE LET read == "theta" \in Range(model.mcmcList)
             o1 == [Nothing EXCEPT !.chain_read = read]
         IN  IF ~read THEN Raise(o1, "UnboundLocalError")
             ELSE Return([o1 EXCEPT !.acf_called = TRUE, !.plotted = "acf", !.saved = save], "acf")

plot_acf(model, nlags, alpha, save) ==
    IF nlags > model.num_samples THEN Raise(Nothing, "ValueError")
    ELSE IF alpha <= 0 \/ alpha >= AlphaDenom THEN Raise(Nothing, "ValueError")
    ELSE IF model.sim_only
    THEN Return([Nothing EXCEPT !.printed = TRUE], "None")
    ELSE LET read == "theta" \in Range(model.mcmcList)
             o1 == [Nothing EXCEPT !.chain_read = read]
         IN  IF ~read THEN Raise(o1, "UnboundLocalError")
             ELSE Return([o1 EXCEPT !.acf_called = TRUE, !.plotted = "acf", !.saved = save], "acf")

(* ----------------------------- theta_pairs ---------------------------- *)
(* lims and theta_ref are TRUE when the caller passes them (of the right   *)
(* length), FALSE when None.  The seaborn and pandas calls are taken to    *)
(* succeed on data of consistent shape; pandas' DataFrame raises           *)
(* ValueError when the number of column names differs from the number of   *)
(* columns of the data.                                                    *)
theta_pairs(samples_dict, n_samples, design_names, native, lims, theta_ref, save) ==
    IF ~Has(samples_dict, "theta")
    THEN Return([Nothing EXCEPT !.printed = TRUE], "None")
    ELSE IF native /\ ~Has(samples_dict, "theta_native") THEN Raise(Nothing, "KeyError")
    ELSE
    LET theta == IF native THEN Get(samples_dict, "theta_native") ELSE Get(samples_dict, "theta")
        n_samp == n_samples
        n_theta == theta.width
        lims1 == IF ~native /\ ~lims THEN TRUE ELSE lims
        n_names == IF design_names.none THEN n_theta ELSE design_names.len
        num == Min(n_samp - 1, ThinMax)
    IN  IF ~design_names.none /\ design_names.list /\ design_names.len # n_theta
        THEN Raise(Nothing, "ValueError")
        ELSE IF num < 0 THEN Raise(Nothing, "ValueError")
        ELSE
        LET o1 == [Nothing EXCEPT !.thin_idx = linspace(0, n_samp - 1, num), !.thinned = TRUE]
        IN  IF n_names # n_theta THEN Raise(o1, "ValueError")
            ELSE IF n_theta + 1 > 2
            THEN Return([o1 EXCEPT !.plotted = "pairgrid", !.lims_set = lims1,
                                   !.ref_drawn = theta_ref, !.saved = save], "fig")
            ELSE Return([o1 EXCEPT !.plotted = "distplot", !.saved = save], "fig")

(* ----------------------------- param_stats ---------------------------- *)
(* The statistics of column j of block k are recorded as <<k, j>> in       *)
(* computed (mean, sd and both quantiles are appended together), its row   *)
(* label in keys.  q1, q2 and digits only change the numbers, which are    *)
(* not modelled.                                                           *)
RECURSIVE StatsLoop(_, _, _, _, _)
StatsLoop(samples_dict, theta_names, i, j, o) ==
    IF o.raised # "" \/ i > Len(samples_dict) THEN o
    ELSE LET k == samples_dict[i].k
             n_param == samples_dict[i].width
         IN  IF j >= n_param THEN StatsLoop(samples_dict, theta_names, i + 1, 0, o)
             ELSE LET o1 == [o EXCEPT !.computed = Append(@, <<k, j>>)]
                      o2 == IF i - 1 = 0 /\ ~theta_names.none
                            THEN IF j < theta_names.len
                                 THEN [o1 EXCEPT !.keys = Append(@, NameLabel(j))]
                                 ELSE Raise(o1, "IndexError")
                            ELSE IF n_param > 1
                            THEN [o1 EXCEPT !.keys = Append(@, KeyLabel(k, j + 1))]
                            ELSE [o1 EXCEPT !.keys = Append(@, KeyLabel(k, 0))]
                  IN  StatsLoop(samples_dict, theta_names, i, j + 1, o2)

param_stats(samples_dict, theta_names) ==
    IF Has(samples_dict, "theta") /\ ~theta_names.none
       /\ theta_names.len # Get(samples_dict, "theta").width
    THEN Return([Nothing EXCEPT !.printed = TRUE], "None")
    ELSE LET o == StatsLoop(samples_dict, theta_names, 1, 0, Nothing)
         IN  IF o.raised # "" THEN o ELSE Return(o, "stats")

(* ----------------------------- mcmc_trace ----------------------------- *)
(* A drawn trace is [k, j, ax, legend]: column j (0-based) of block k on   *)
(* axis ax, with its legend label (None when lineplot gets no label).  A   *)
(* y-axis label is [ax, k, j, label]: set on axis ax, which shows block k  *)
(* (column j, or -1 when the axis shows the whole block).                  *)

(* lines 98-114: the sample indices to plot, or the exception raised *)
plot_idx_of(n_samples, start, start_int, end, end_int, n_to_plot) ==
    LET n_to_plot1 == IF n_to_plot > n_samples THEN n_samples ELSE n_to_plot
        end1 == IF IsNone(end) THEN n_samples - 1 ELSE Val(end)
    IN  IF ~start_int \/ start < 0 THEN [raised |-> "TypeError", idx |-> <<>>]
        ELSE IF start > end1 \/ end1 < 0 \/ ~end_int \/ end1 > n_samples
        THEN [raised |-> "TypeError", idx |-> <<>>]
        ELSE IF (end1 - start) > n_to_plot1
        THEN IF n_to_plot1 < 0 THEN [raised |-> "ValueError", idx |-> <<>>]
             ELSE [raised |-> "", idx |-> unique(linspace(start, end1, n_to_plot1))]
        ELSE [raised |-> "", idx |-> arange(start, end1)]

(* samples_dict[k][plot_idx, j] raises IndexError on an index past the end *)
OutOfBounds(plot_idx, n_samples) == \E i \in 1..Len(plot_idx) : plot_idx[i] >= n_samples

(* the lineplot calls of the loops, in order: [i, k, j, multi], i the       *)
(* 0-based enumerate index of block k, multi whether the block is drawn by *)
(* the for-j loop (more than one line) or by the else branch               *)
RECURSIVE Work(_, _, _)
Work(samples_dict, max_print, i) ==
    IF i > Len(samples_dict) THEN <<>>
    ELSE LET k == samples_dict[i].k
             n == Min(samples_dict[i].width, max_print)
             here == IF k = "theta_native" THEN <<>>
                     ELSE IF n > 1
                     THEN [j \in 1..n |-> [i |-> i - 1, k |-> k, j |-> j - 1, multi |-> TRUE, n |-> n]]
                     ELSE <<[i |-> i - 1, k |-> k, j |-> 0, multi |-> FALSE, n |-> n]>>
         IN  here \o Work(samples_dict, max_print, i + 1)

(* axs[i] of plt.subplots(n, 1): one Axes (not subscriptable) when n = 1 *)
AxsError(n, i) ==
    IF n = 1 THEN "TypeError" ELSE IF i >= n THEN "IndexError" ELSE ""

(* lines 125-139: one lineplot of the by_group=False loop and its label *)
StepUngrouped(o, w, axs_idx, theta_names, n_samples) ==
    IF OutOfBounds(o.plot_idx, n_samples) THEN Raise(o, "IndexError")
    ELSE IF AxsError(o.n_axes, axs_idx) # "" THEN Raise(o, AxsError(o.n_axes, axs_idx))
    ELSE LET o1 == [o EXCEPT !.traces = Append(@, [k |-> w.k, j |-> w.j, ax |-> axs_idx, legend |-> None])]
             named == w.k = "theta" /\ ~theta_names.none
         IN  IF w.multi
             THEN IF named
                  THEN IF w.j < theta_names.len
                       THEN [o1 EXCEPT !.ylabels = Append(@, [ax |-> axs_idx, k |-> w.k, j |-> w.j, label |-> NameLabel(w.j)])]
                       ELSE Raise(o1, "IndexError")
                  ELSE [o1 EXCEPT !.ylabels = Append(@, [ax |-> axs_idx, k |-> w.k, j |-> w.j, label |-> KeyLabel(w.k, w.j + 1)])]
             ELSE IF named
                  THEN Raise(o1, "AttributeError")
                  ELSE [o1 EXCEPT !.ylabels = Append(@, [ax |-> axs_idx, k |-> w.k, j |-> w.j, label |-> KeyLabel(w.k, 0)])]

(* lines 147-159: one lineplot of the by_group=True loop, its legend label *)
(* and, after the last line of a block, the axis label                     *)
StepGrouped(o, w, theta_names, n_samples) ==
    LET named == w.i = 0 /\ ~theta_names.none
    IN  IF OutOfBounds(o.plot_idx, n_samples) THEN Raise(o, "IndexError")
        ELSE IF AxsError(o.n_axes, w.i) # "" THEN Raise(o, AxsError(o.n_axes, w.i))
        ELSE IF w.multi
        THEN IF named /\ w.j >= theta_names.len THEN Raise(o, "IndexError")
             ELSE LET lab == IF named THEN NameLabel(w.j) ELSE KeyLabel(w.k, w.j + 1)
                      o1 == [o EXCEPT !.traces = Append(@, [k |-> w.k, j |-> w.j, ax |-> w.i, legend |-> Some(lab)])]
                  IN  IF w.j = w.n - 1
                      THEN [o1 EXCEPT !.ylabels = Append(@, [ax |-> w.i, k |-> w.k, j |-> -1, label |-> KeyLabel(w.k, 0)])]
                      ELSE o1
        ELSE LET o1 == [o EXCEPT !.traces = Append(@, [k |-> w.k, j |-> 0, ax |-> w.i, legend |-> None])]
             IN  IF named
                 THEN IF theta_names.len > 0
                      THEN [o1 EXCEPT !.ylabels = Append(@, [ax |-> w.i, k |-> w.k, j |-> 0, label |-> NameLabel(0)])]
                      ELSE Raise(o1, "IndexError")
                 ELSE [o1 EXCEPT !.ylabels = Append(@, [ax |-> w.i, k |-> w.k, j |-> 0, label |-> KeyLabel(w.k, 0)])]

RECURSIVE DrawLoop(_, _, _, _, _, _)
DrawLoop(work, pos, o, by_group, theta_names, n_samples) ==
    IF o.raised # "" \/ pos > Len(work) THEN o
    ELSE DrawLoop(work, pos + 1,
                  IF by_group THEN StepGrouped(o, work[pos], theta_names, n_samples)
                  ELSE StepUngrouped(o, work[pos], pos - 1, theta_names, n_samples),
                  by_group, theta_names, n_samples)

(* line 144 *)
n_axes_grouped(samples_dict) ==
    IF Has(samples_dict, "theta_native") THEN Len(samples_dict) - 1 ELSE Len(samples_dict)

(* lines 117-121 *)
RECURSIVE total_plots(_, _, _)
total_plots(samples_dict, max_print, i) ==
    IF i > Len(samples_dict) THEN 0
    ELSE (IF samples_dict[i].k = "theta_native" THEN 0
          ELSE Min(samples_dict[i].width, max_print))
         + total_plots(samples_dict, max_print, i + 1)

mcmc_trace(samples_dict, n_samples, theta_names, start, start_int, end, end_int, n_to_plot, by_group, max_print, save) ==
    IF ~Has(samples_dict, "lamUz") THEN Raise(Nothing, "KeyError")
    ELSE
    LET sel == plot_idx_of(n_samples, start, start_int, end, end_int, n_to_plot)
    IN  IF sel.raised # "" THEN Raise(Nothing, sel.raised)
        ELSE
        LET n == IF by_group THEN n_axes_grouped(samples_dict)
                 ELSE total_plots(samples_dict, max_print, 1)
            o0 == [Nothing EXCEPT !.plot_idx = sel.idx]
        IN  IF n = 0 THEN Raise(o0, "ValueError")
            ELSE LET o == DrawLoop(Work(samples_dict, max_print, 1), 1,
                                   [o0 EXCEPT !.n_axes = n], by_group, theta_names, n_samples)
                 IN  IF o.raised # "" THEN o
                     ELSE Return([o EXCEPT !.saved = save], "fig")

(* ------------------- test_KronSetupLogLik.py: design ------------------ *)
(* A float i/(n-1) of np.linspace(0, 1, n) is the pair <<i, n-1>>.         *)
(* x1 has the columns linspace(0,1,n1) and linspace(1,0,n1), x2 the        *)
(* column linspace(0,1,n2); rows and matrices are 0-based functions.       *)
x1_of(n1) == [r \in 0..(n1 - 1) |-> << <<r, n1 - 1>>, <<n1 - 1 - r, n1 - 1>> >>]
x2_of(n2) == [r \in 0..(n2 - 1) |-> << <<r, n2 - 1>> >>]

(* np.meshgrid(range(n1), range(n2)), default indexing 'xy': two           *)
(* matrices of shape (n2, n1), r1[a][b] = b and r2[a][b] = a               *)
meshgrid(n1, n2) ==
    [r1 |-> [a \in 0..(n2 - 1) |-> [b \in 0..(n1 - 1) |-> b]],
     r2 |-> [a \in 0..(n2 - 1) |-> [b \in 0..(n1 - 1) |-> a]]]

(* variant: M.reshape(-1, order='C'), row-major *)
reshape_C(M, rows, cols) ==
    [k \in 0..(rows * cols - 1) |-> M[k \div cols][k % cols]]

(* M.reshape(-1, order='F') of a matrix of shape (rows, cols): column-major *)
reshape_F(M, rows, cols) ==
    [k \in 0..(rows * cols - 1) |-> M[k % rows][k \div rows]]

(* line 16: np.hstack((x1[r1.reshape(-1,order='F'),:], x2[r2.reshape(-1,order='F'),:])) *)
x_sim_of(n1, n2) ==
    LET x1 == x1_of(n1)
        x2 == x2_of(n2)
        g == meshgrid(n1, n2)
        f1 == reshape_F(g.r1, n2, n1)
        f2 == reshape_F(g.r2, n2, n1)
    IN  [k \in 0..(n1 * n2 - 1) |-> x1[f1[k]] \o x2[f2[k]]]

(* line 17: the separable encoding is the list of the factors *)
x_sim_kron_of(n1, n2) == <<x1_of(n1), x2_of(n2)>>

(* ------------------------------ inputs -------------------------------- *)
BlockNames == {"theta", "theta_native", "betaU", "lamUz"}

(* key orders: at least one block, distinct keys; theta_native only beside theta *)
KeyOrders ==
    {ks \in UNION {[1..n -> BlockNames] : n \in 1..Cardinality(BlockNames)} :
        /\ \A i, j \in 1..Len(ks) : i # j => ks[i] # ks[j]
        /\ "theta_native" \in Range(ks) => "theta" \in Range(ks)}

(* theta_native has the shape of theta *)
SamplesDicts ==
    {[i \in 1..Len(ks) |->
        [k |-> ks[i], width |-> w[IF ks[i] = "theta_native" THEN "theta" ELSE ks[i]]]] :
        ks \in KeyOrders, w \in [BlockNames \ {"theta_native"} -> 1..MaxWidth]}

SmallDicts == {d \in SamplesDicts : Keys(d) \subseteq {"theta", "theta_native", "lamUz"} /\ Len(d) <= 2}

NoNames == [none |-> TRUE, list |-> FALSE, len |-> 0]
ListNames == {[none |-> FALSE, list |-> TRUE, len |-> n] : n \in 0..MaxNames}
TupleNames == {[none |-> FALSE, list |-> FALSE, len |-> n] : n \in 0..MaxNames}

(* --------------------------- state machine ---------------------------- *)
Init ==
    /\ fn = "init"
    /\ args = NoArgs
    /\ out = Nothing

(* A call starts from the initial state only: nothing is kept between calls. *)
PlotAcf ==
    /\ fn = "init"
    /\ \E num_samples \in 0..MaxSamples, nlags \in 0..MaxLags,
       alpha \in (-1)..(AlphaDenom + 1), sim_only \in BOOLEAN, save \in BOOLEAN :
        LET mcmcList == IF sim_only THEN <<"betaU", "lamUz">>
                        ELSE <<"theta", "betaU", "lamUz">>
            model == [num_samples |-> num_samples, sim_only |-> sim_only, mcmcList |-> mcmcList]
        IN  /\ fn' = "plot_acf"
            /\ args' = [NoArgs EXCEPT !.num_samples = num_samples, !.sim_only = sim_only,
                                      !.mcmcList = mcmcList, !.nlags = nlags,
                                      !.alpha = alpha, !.save = save]
            /\ out' = plot_acf(model, nlags, alpha, save)

ThetaPairsCall(d, n, names, native, lims, theta_ref, save) ==
    /\ fn' = "theta_pairs"
    /\ args' = [NoArgs EXCEPT !.samples_dict = d, !.n_samples = n, !.names = names,
                              !.native = native, !.lims = lims, !.theta_ref = theta_ref,
                              !.save = save]
    /\ out' = theta_pairs(d, n, names, native, lims, theta_ref, save)

ThetaPairs ==
    /\ fn = "init"
    /\ \/ \E d \in SamplesDicts, names \in {NoNames} \cup ListNames \cup TupleNames,
             native \in BOOLEAN :
               ThetaPairsCall(d, MaxSamples, names, native, FALSE, FALSE, FALSE)
       \/ \E d \in SmallDicts, names \in {NoNames} \cup ListNames \cup TupleNames,
             native \in BOOLEAN, n \in 0..MaxSamples,
             lims \in BOOLEAN, theta_ref \in BOOLEAN, save \in BOOLEAN :
               ThetaPairsCall(d, n, names, native, lims, theta_ref, save)

ParamStats ==
    /\ fn = "init"
    /\ \E d \in SamplesDicts, names \in {NoNames} \cup ListNames :
        /\ fn' = "param_stats"
        /\ args' = [NoArgs EXCEPT !.samples_dict = d, !.n_samples = MaxSamples, !.names = names]
        /\ out' = param_stats(d, names)

McmcTraceCall(d, n, names, start, start_int, end, end_int, n_to_plot, by_group, max_print, save) ==
    /\ fn' = "mcmc_trace"
    /\ args' = [NoArgs EXCEPT !.samples_dict = d, !.n_samples = n, !.names = names,
                              !.start = start, !.start_int = start_int,
                              !.end = end, !.end_int = end_int, !.n_to_plot = n_to_plot,
                              !.by_group = by_group, !.max_print = max_print, !.save = save]
    /\ out' = mcmc_trace(d, n, names, start, start_int, end, end_int, n_to_plot,
                         by_group, max_print, save)

McmcTrace ==
    /\ fn = "init"
    /\ \/ \E d \in SamplesDicts, names \in {NoNames} \cup ListNames,
             by_group \in BOOLEAN, max_print \in 0..MaxPrint :
               McmcTraceCall(d, MaxSamples, names, 0, TRUE, None, TRUE, DefaultNToPlot,
                             by_group, max_print, FALSE)
       \/ \E d \in {d \in SmallDicts : Has(d, "lamUz")},
             n \in 0..MaxSamples, start \in (-1)..MaxSamples,
             end \in {None} \cup {Some(e) : e \in (-1)..(MaxSamples + 1)},
             n_to_plot \in (-1)..(MaxSamples + 1), by_group \in BOOLEAN :
               McmcTraceCall(d, n, NoNames, start, TRUE, end, TRUE, n_to_plot,
                             by_group, MaxPrint, FALSE)
       \/ \E d \in {d \in SmallDicts : Has(d, "lamUz")},
             start_int \in BOOLEAN, end_int \in BOOLEAN, save \in BOOLEAN, by_group \in BOOLEAN :
               McmcTraceCall(d, MaxSamples, NoNames, 1, start_int, Some(2), end_int,
                             DefaultNToPlot, by_group, MaxPrint, save)

BuildDesign ==
    /\ fn = "init"
    /\ \E n1 \in 1..MaxFactorRows, n2 \in 1..MaxFactorRows :
        /\ fn' = "design"
        /\ args' = [NoArgs EXCEPT !.n1 = n1, !.n2 = n2]
        /\ out' = [Nothing EXCEPT !.x_sim = x_sim_of(n1, n2), !.x_sim_kron = x_sim_kron_of(n1, n2)]

Next ==
    \/ PlotAcf
    \/ ThetaPairs
    \/ ParamStats
    \/ McmcTrace
    \/ BuildDesign

Spec == Init /\ [][Next]_vars

(* ============================== claims =============================== *)
(* helpers of the claims' formulas *)
ThetaCols(d) == IF Has(d, "theta") THEN Get(d, "theta").width ELSE 0
Mismatch(names, d) == ~names.none /\ names.len # ThetaCols(d)
NonNative(d) == {i \in 1..Len(d) : d[i].k # "theta_native"}
BadArgs == args.nlags > args.num_samples \/ args.alpha <= 0 \/ args.alpha >= AlphaDenom

(* C1: plot_acf raises ValueError whenever nlags exceeds the number of     *)
(* samples or alpha is not strictly between 0 and 1, for sim-only and      *)
(* other models alike, before the theta chain is read and before           *)
(* model.acf is called.                                                    *)
C1_AcfRejectsBadArgs ==
    (fn = "plot_acf" /\ BadArgs)
        => /\ out.raised = "ValueError"
           /\ out.returned = ""
           /\ ~out.chain_read
           /\ ~out.acf_called

C1_Witness ==
    /\ fn = "plot_acf"
    /\ args.sim_only
    /\ args.nlags <= args.num_samples
    /\ args.alpha >= AlphaDenom
    /\ out.raised = "ValueError"

(* C2: a theta-based diagnostic on a sim-only model is handled without a   *)
(* crash: theta_pairs on a samples dict without the key theta, and         *)
(* plot_acf with valid nlags and alpha on a model whose sim_only flag is   *)
(* set, return None, raise nothing, read no theta chain, do not call       *)
(* model.acf and draw nothing.                                             *)
C2_SimOnlyHandled ==
    /\ (fn = "theta_pairs" /\ ~Has(args.samples_dict, "theta"))
          => /\ out.raised = "" /\ out.returned = "None"
             /\ ~out.thinned /\ out.plotted = "" /\ ~out.saved
    /\ (fn = "plot_acf" /\ args.sim_only /\ ~BadArgs)
          => /\ out.raised = "" /\ out.returned = "None"
             /\ ~out.chain_read /\ ~out.acf_called
             /\ out.plotted = "" /\ ~out.saved

C2_Witness ==
    /\ fn = "plot_acf"
    /\ args.sim_only
    /\ ~BadArgs
    /\ args.save
    /\ out.returned = "None"

(* C3: theta_pairs and param_stats reject labels whose number differs from *)
(* the number of theta columns before any computation: theta_pairs raises  *)
(* ValueError before thinning or plotting, param_stats returns no table    *)
(* and computes no statistic, for every samples dict and label sequence.   *)
(* (theta_pairs is taken on the dicts whose theta block it can read and on *)
(* the documented type of design_names, a list.)                           *)
C3_LabelMismatchRejected ==
    /\ (/\ fn = "theta_pairs"
        /\ Has(args.samples_dict, "theta")
        /\ (args.native => Has(args.samples_dict, "theta_native"))
        /\ args.names.list
        /\ Mismatch(args.names, args.samples_dict))
          => /\ out.raised = "ValueError"
             /\ ~out.thinned /\ out.plotted = ""
    /\ (fn = "param_stats" /\ Mismatch(args.names, args.samples_dict))
          => /\ out.raised = "" /\ out.returned = "None"
             /\ out.computed = <<>>

(* C4: mcmc_trace given theta_names whose number differs from the number   *)
(* of theta columns rejects the call before any trace is drawn, in both    *)
(* modes: it draws no trace, returns no figure, and puts no name of        *)
(* theta_names on a trace of another parameter.  (Stated for              *)
(* max_print >= 1.)                                                        *)
C4_TraceLabelMismatchRejected ==
    (fn = "mcmc_trace" /\ args.max_print >= 1 /\ Mismatch(args.names, args.samples_dict))
        => /\ out.returned = ""
           /\ out.traces = <<>>
           /\ \A i \in 1..Len(out.ylabels) :
                 out.ylabels[i].label[1] = "names"
                    => out.ylabels[i].k = "theta" /\ out.ylabels[i].label[2] = out.ylabels[i].j
           /\ \A i \in 1..Len(out.traces) :
                 (~IsNone(out.traces[i].legend) /\ Val(out.traces[i].legend)[1] = "names")
                    => out.traces[i].k = "theta"

(* C5: the consumers skip theta_native: for every samples dict that holds  *)
(* theta_native, mcmc_trace draws no trace from it and counts no axis for  *)
(* it, and param_stats computes no row from it.                            *)
C5_NativeSkipped ==
    Has(args.samples_dict, "theta_native")
        => /\ fn = "mcmc_trace"
                => /\ \A i \in 1..Len(out.traces) : out.traces[i].k # "theta_native"
                   /\ out.n_axes >= 0 =>
                        out.n_axes = IF args.by_group
                                     THEN Cardinality(NonNative(args.samples_dict))
                                     ELSE total_plots(args.samples_dict, args.max_print, 1)
           /\ fn = "param_stats"
                => /\ \A i \in 1..Len(out.computed) : out.computed[i][1] # "theta_native"
                   /\ \A i \in 1..Len(out.keys) : out.keys[i][1] # "theta_native"

(* C6: the joint design of the factors x1 (n1 rows) and x2 (n2 rows) is    *)
(* their Cartesian product with the first factor varying slowest: it has   *)
(* n1 * n2 rows, row k being x1[k div n2] followed by x2[k mod n2]; for    *)
(* the factors of the test (3 and 4 rows) it has 12 rows.                  *)
C6_JointIsCartesianProduct ==
    fn = "design"
        => LET n1 == args.n1
               n2 == args.n2
               x1 == out.x_sim_kron[1]
               x2 == out.x_sim_kron[2]
           IN  /\ DOMAIN out.x_sim = 0..(n1 * n2 - 1)
               /\ Cardinality(DOMAIN out.x_sim) = Cardinality(DOMAIN x1) * Cardinality(DOMAIN x2)
               /\ \A k \in DOMAIN out.x_sim : out.x_sim[k] = x1[k \div n2] \o x2[k % n2]
               /\ (n1 = TestN1 /\ n2 = TestN2) => Cardinality(DOMAIN out.x_sim) = 12

C6_Witness ==
    /\ fn = "design"
    /\ args.n1 = TestN1 /\ args.n2 = TestN2
    /\ Cardinality(DOMAIN out.x_sim) = 12
    /\ out.x_sim[5] = << <<1, 2>>, <<1, 2>>, <<1, 3>> >>

(* C8: in mcmc_trace, whenever start and end pass the validation, every    *)
(* selected sample index is a row index of the draws (0..n_samples-1) and  *)
(* lies in [start, end], and at most min(n_to_plot, n_samples) indices are *)
(* selected.                                                               *)
Selection ==
    plot_idx_of(args.n_samples, args.start, args.start_int, args.end, args.end_int,
                args.n_to_plot)

C8_SelectedIndicesValid ==
    (fn = "mcmc_trace" /\ Has(args.samples_dict, "lamUz") /\ Selection.raised = "")
        => LET end1 == IF IsNone(args.end) THEN args.n_samples - 1 ELSE Val(args.end)
           IN  /\ \A i \in 1..Len(out.plot_idx) :
                     /\ 0 <= out.plot_idx[i] /\ out.plot_idx[i] <= args.n_samples - 1
                     /\ args.start <= out.plot_idx[i] /\ out.plot_idx[i] <= end1
               /\ Len(out.plot_idx) <= Min(args.n_to_plot, args.n_samples)

(* C9: in mcmc_trace with by_group=True, every block other than            *)
(* theta_native is drawn on an axis whose index is in [0, n_axes), and two *)
(* blocks are never drawn on the same axis, whatever the key order.        *)
(* (Stated for the calls with default labels, max_print >= 1, sample       *)
(* indices in range and at least two axes.)                                *)
C9_GroupedAxesInRange ==
    (/\ fn = "mcmc_trace" /\ args.by_group /\ args.max_print >= 1
     /\ Has(args.samples_dict, "lamUz")
     /\ args.names.none
     /\ Selection.raised = "" /\ ~OutOfBounds(Selection.idx, args.n_samples)
     /\ Cardinality(NonNative(args.samples_dict)) >= 2)
        => /\ \A b \in NonNative(args.samples_dict) :
                 \E i \in 1..Len(out.traces) :
                     /\ out.traces[i].k = args.samples_dict[b].k
                     /\ 0 <= out.traces[i].ax /\ out.traces[i].ax < out.n_axes
           /\ \A i, j \in 1..Len(out.traces) :
                 out.traces[i].k # out.traces[j].k => out.traces[i].ax # out.traces[j].ax

(* C10: param_stats returns one row per column of each block, in dict      *)
(* order; a block of width 1 is labelled with its name, a wider block with *)
(* name_j, j = 1..width, and theta_names replace the labels of the rows of *)
(* the theta block only, wherever theta stands and when there is no theta. *)
RECURSIVE ExpectedKeys(_, _, _)
ExpectedKeys(d, names, i) ==
    IF i > Len(d) THEN <<>>
    ELSE LET k == d[i].k
             w == d[i].width
         IN  [j \in 1..w |->
                IF k = "theta" /\ ~names.none THEN NameLabel(j - 1)
                ELSE IF w > 1 THEN KeyLabel(k, j) ELSE KeyLabel(k, 0)]
             \o ExpectedKeys(d, names, i + 1)

RECURSIVE ExpectedRows(_, _)
ExpectedRows(d, i) ==
    IF i > Len(d) THEN <<>>
    ELSE [j \in 1..d[i].width |-> <<d[i].k, j - 1>>] \o ExpectedRows(d, i + 1)

C10_RowsLabelledByBlock ==
    (fn = "param_stats" /\ ~Mismatch(args.names, args.samples_dict))
        => /\ out.returned = "stats"
           /\ out.computed = ExpectedRows(args.samples_dict, 1)
           /\ out.keys = ExpectedKeys(args.samples_dict, args.names, 1)

====
